---------------------------- MODULE Spec2Model ----------------------------
(***************************************************************************)
(* Restaurant ordering platform: the five tables of the schema migration   *)
(* (profiles, restaurants, dishes, orders, order_items), their CHECK,      *)
(* foreign-key and primary-key constraints, and their row-level security   *)
(* policies.  Every authenticated identity may send any row operation to   *)
(* the backend; the policies decide which of them take effect.             *)
(*                                                                         *)
(* Row-level security as PostgreSQL evaluates it:                          *)
(*   - the permissive policies of one command on one table are OR-ed;      *)
(*   - SELECT and DELETE apply USING to the existing row;                  *)
(*   - INSERT applies WITH CHECK to the new row;                           *)
(*   - UPDATE applies USING to the existing row and WITH CHECK to the new  *)
(*     row, each OR-ed over the UPDATE policies independently;             *)
(*   - a command with no policy on a table touches no row;                 *)
(*   - a sub-select inside a policy runs as the caller, so it sees only    *)
(*     the rows the caller's SELECT policies on that table admit;          *)
(*   - foreign-key checks and ON DELETE CASCADE bypass the policies.       *)
(*   - a write with a WHERE or RETURNING clause also needs the SELECT       *)
(*     policies to admit the row; on every table here the USING and WITH   *)
(*     CHECK expressions of the write policies imply a SELECT policy, so   *)
(*     this adds no condition.                                             *)
(* A write that a policy or a constraint refuses changes no table, so it   *)
(* is a step that is not enabled.  Deleting an identity in auth.users is   *)
(* an administrative act of the authentication provider, not a request of  *)
(* a caller, and is not a step either.                                     *)
(*                                                                         *)
(* Columns that no policy and no constraint reads (email, full_name, name, *)
(* description, address, phone, image_url, category, delivery_address,     *)
(* notes, created_at, updated_at) are left out of the rows.  Primary keys  *)
(* of restaurants, dishes, orders and order_items are backend generated    *)
(* and are kept as the identity of a row.                                  *)
(*                                                                         *)
(* The customer's client (CustomerDashboard, RestaurantView, Cart) is one  *)
(* browser session of one signed-in identity.  Each event handler is a     *)
(* step; handlePlaceOrder, which awaits the backend twice, is one step per *)
(* await.  A request commits and its response is handled in one step: the  *)
(* client does nothing in between, and whatever another identity does in   *)
(* between happens, for the client, before its next step.  Prices and      *)
(* amounts are whole numbers of the smallest currency unit.                *)
(***************************************************************************)
EXTENDS Integers, FiniteSets, Sequences, TLC

\* ---------------------------------------------------------------- bounds
\* Identities known to the authentication provider (auth.users).
NumUsers == 3
\* Rows the backend ever generates an id for, per table.
MaxRestaurants == 2
MaxDishes == 1
MaxOrders == 1
MaxOrderItems == 1
\* Largest price / amount a request carries.
MaxPrice == 1
\* Largest quantity a request carries.
MaxQuantity == 1
\* The customer's session: dishes on the menu it browses, the largest price
\* on that menu, and the largest quantity of one cart entry.
MaxMenu == 2
MaxMenuPrice == 2
MaxCartQuantity == 2

VARIABLES
    profiles,      \* id -> [id, user_type]
    restaurants,   \* id -> [id, seller_id, is_active]
    dishes,        \* id -> [id, restaurant_id, price, is_available]
    orders,        \* id -> [id, customer_id, restaurant_id, total_amount, status]
    order_items,   \* id -> [id, order_id, dish_id, quantity, price]
    generated,     \* per table, how many ids gen_random_uuid() has handed out
    last,          \* the last write the backend committed: who, what, which row
    \* the customer's browser session (CustomerDashboard, RestaurantView, Cart)
    restaurantList,      \* CustomerDashboard.restaurants: the rows loadRestaurants got
    loading,             \* CustomerDashboard.loading
    selectedRestaurant,  \* CustomerDashboard: the restaurants row being viewed, or null
    cartItems,           \* CustomerDashboard: sequence of [dish, restaurant, quantity]
    showCart,            \* CustomerDashboard.showCart
    restaurantView,      \* RestaurantView while mounted: [dishes, loading], else null
    cart,                \* Cart while mounted: [deliveryAddress, loading, error, success]
    placing,             \* the running handlePlaceOrder: [pc, items, order]
    timer                \* the setTimeout callback of handlePlaceOrder is pending

database == <<profiles, restaurants, dishes, orders, order_items, generated, last>>

client ==
    <<restaurantList, loading, selectedRestaurant, cartItems, showCart,
      restaurantView, cart, placing, timer>>

vars == <<database, client>>

Users == 1..NumUsers

\* ------------------------------------------------------- column domains
UserType == {"customer", "seller"}

OrderStatus == {"pending", "confirmed", "preparing", "ready", "delivered", "cancelled"}

\* ------------------------------------------------------------- helpers
\* A table without the rows whose ids are in gone.
Without(table, gone) == [id \in DOMAIN table \ gone |-> table[id]]

\* A table with row stored under row.id.
With(table, row) ==
    [id \in DOMAIN table \cup {row.id} |-> IF id = row.id THEN row ELSE table[id]]

Committed(table, op, uid, id) == [table |-> table, op |-> op, uid |-> uid, id |-> id]

\* =============================================================== profiles
\* CREATE TABLE profiles: CHECK (user_type IN ('customer', 'seller')).
ProfilesCheck(row) == row.user_type \in UserType

\* Mutant: the policy written as USING (true).
UsersCanViewOwnProfile_Anyone(uid, row) == row.id \in Users

\* "Users can view own profile": USING (auth.uid() = id)
UsersCanViewOwnProfile(uid, row) == uid = row.id

\* "Users can update own profile": USING (auth.uid() = id)
UsersCanUpdateOwnProfileUsing(uid, row) == uid = row.id

\* "Users can update own profile": WITH CHECK (auth.uid() = id)
UsersCanUpdateOwnProfileCheck(uid, row) == uid = row.id

\* "Users can insert own profile": WITH CHECK (auth.uid() = id)
UsersCanInsertOwnProfile(uid, row) == uid = row.id

\* SELECT * FROM profiles, as uid.
SelectProfiles(uid) ==
    {id \in DOMAIN profiles : UsersCanViewOwnProfile(uid, profiles[id])}

\* Rows of other tables that reference profiles(id).
ProfileReferenced(id) ==
    \/ \E r \in DOMAIN restaurants : restaurants[r].seller_id = id
    \/ \E o \in DOMAIN orders : orders[o].customer_id = id

\* INSERT INTO profiles VALUES (row), as uid.
ProfilesInsert(uid, row) ==
    /\ row.id \in Users                    \* REFERENCES auth.users
    /\ row.id \notin DOMAIN profiles       \* PRIMARY KEY
    /\ ProfilesCheck(row)
    /\ UsersCanInsertOwnProfile(uid, row)
    /\ profiles' = With(profiles, row)
    /\ last' = Committed("profiles", "insert", uid, row.id)
    /\ UNCHANGED <<restaurants, dishes, orders, order_items, generated>>

\* UPDATE profiles SET (id, user_type) = row WHERE id = id, as uid.
ProfilesUpdate(uid, id, row) ==
    /\ id \in DOMAIN profiles
    /\ UsersCanUpdateOwnProfileUsing(uid, profiles[id])
    /\ row.id \in Users                                   \* REFERENCES auth.users
    /\ row.id = id \/ row.id \notin DOMAIN profiles       \* PRIMARY KEY
    /\ row.id = id \/ ~ProfileReferenced(id)              \* referencing rows
    /\ ProfilesCheck(row)
    /\ UsersCanUpdateOwnProfileCheck(uid, row)
    /\ profiles' = With(Without(profiles, {id}), row)
    /\ last' = Committed("profiles", "update", uid, id)
    /\ UNCHANGED <<restaurants, dishes, orders, order_items, generated>>

\* ============================================================ restaurants
\* Mutant: the policy written as USING (true).
AnyoneCanViewActiveRestaurants_Inactive(uid, row) == row.is_active \in BOOLEAN

\* "Anyone can view active restaurants": USING (is_active = true)
AnyoneCanViewActiveRestaurants(uid, row) == row.is_active = TRUE

\* "Sellers can view own restaurants": USING (seller_id = auth.uid())
SellersCanViewOwnRestaurants(uid, row) == row.seller_id = uid

\* SELECT * FROM restaurants, as uid.
SelectRestaurants(uid) ==
    {id \in DOMAIN restaurants :
        \/ AnyoneCanViewActiveRestaurants(uid, restaurants[id])
        \/ SellersCanViewOwnRestaurants(uid, restaurants[id])}

\* Mutant: the policy without seller_id = auth.uid().
SellersCanInsertOwnRestaurants_AnySellerId(uid, row) ==
    \E p \in SelectProfiles(uid) :
        /\ profiles[p].id = uid
        /\ profiles[p].user_type = "seller"

\* "Sellers can insert own restaurants": WITH CHECK (seller_id = auth.uid()
\* AND EXISTS (SELECT 1 FROM profiles WHERE profiles.id = auth.uid()
\* AND profiles.user_type = 'seller'))
SellersCanInsertOwnRestaurants(uid, row) ==
    /\ row.seller_id = uid
    /\ \E p \in SelectProfiles(uid) :
          /\ profiles[p].id = uid
          /\ profiles[p].user_type = "seller"

\* "Sellers can update own restaurants": USING (seller_id = auth.uid())
SellersCanUpdateOwnRestaurantsUsing(uid, row) == row.seller_id = uid

\* "Sellers can update own restaurants": WITH CHECK (seller_id = auth.uid())
SellersCanUpdateOwnRestaurantsCheck(uid, row) == row.seller_id = uid

\* "Sellers can delete own restaurants": USING (seller_id = auth.uid())
SellersCanDeleteOwnRestaurants(uid, row) == row.seller_id = uid

\* Rows removed by ON DELETE CASCADE when the restaurants in gone go.
DishesOfRestaurants(gone) == {d \in DOMAIN dishes : dishes[d].restaurant_id \in gone}

OrdersOfRestaurants(gone) == {o \in DOMAIN orders : orders[o].restaurant_id \in gone}

OrderItemsOf(goneOrders, goneDishes) ==
    {i \in DOMAIN order_items :
        \/ order_items[i].order_id \in goneOrders
        \/ order_items[i].dish_id \in goneDishes}

\* INSERT INTO restaurants VALUES (row), as uid; the id is generated.
RestaurantsInsert(uid, row) ==
    /\ generated.restaurants < MaxRestaurants
    /\ row.id = generated.restaurants + 1
    /\ row.seller_id \in DOMAIN profiles      \* REFERENCES profiles(id)
    /\ SellersCanInsertOwnRestaurants(uid, row)
    /\ restaurants' = With(restaurants, row)
    /\ generated' = [generated EXCEPT !.restaurants = row.id]
    /\ last' = Committed("restaurants", "insert", uid, row.id)
    /\ UNCHANGED <<profiles, dishes, orders, order_items>>

\* UPDATE restaurants SET (seller_id, is_active) = row WHERE id = id, as uid.
RestaurantsUpdate(uid, id, row) ==
    /\ id \in DOMAIN restaurants
    /\ SellersCanUpdateOwnRestaurantsUsing(uid, restaurants[id])
    /\ row.id = id
    /\ row.seller_id \in DOMAIN profiles      \* REFERENCES profiles(id)
    /\ SellersCanUpdateOwnRestaurantsCheck(uid, row)
    /\ restaurants' = With(restaurants, row)
    /\ last' = Committed("restaurants", "update", uid, id)
    /\ UNCHANGED <<profiles, dishes, orders, order_items, generated>>

\* DELETE FROM restaurants WHERE id = id, as uid; dishes and orders of the
\* restaurant, and the order_items of both, go with it (ON DELETE CASCADE).
RestaurantsDelete(uid, id) ==
    /\ id \in DOMAIN restaurants
    /\ SellersCanDeleteOwnRestaurants(uid, restaurants[id])
    /\ restaurants' = Without(restaurants, {id})
    /\ dishes' = Without(dishes, DishesOfRestaurants({id}))
    /\ orders' = Without(orders, OrdersOfRestaurants({id}))
    /\ order_items' = Without(order_items,
            OrderItemsOf(OrdersOfRestaurants({id}), DishesOfRestaurants({id})))
    /\ last' = Committed("restaurants", "delete", uid, id)
    /\ UNCHANGED <<profiles, generated>>

\* ================================================================= dishes
\* Mutant: the table without CHECK (price >= 0).
DishesCheck_AnyPrice(row) == row.price \in Int

\* CREATE TABLE dishes: price numeric NOT NULL CHECK (price >= 0).
DishesCheck(row) == row.price >= 0

\* Mutant: the policy without the sub-select on the parent restaurant.
AnyoneCanViewAvailableDishes_InactiveParent(uid, row) == row.is_available = TRUE

\* "Anyone can view available dishes": USING (is_available = true AND
\* EXISTS (SELECT 1 FROM restaurants WHERE restaurants.id =
\* dishes.restaurant_id AND restaurants.is_active = true))
AnyoneCanViewAvailableDishes(uid, row) ==
    /\ row.is_available = TRUE
    /\ \E r \in SelectRestaurants(uid) :
          /\ restaurants[r].id = row.restaurant_id
          /\ restaurants[r].is_active = TRUE

\* EXISTS (SELECT 1 FROM restaurants WHERE restaurants.id = <restaurant_id>
\* AND restaurants.seller_id = auth.uid()): the sub-select shared by the
\* seller policies of dishes and orders.
OwnsRestaurant(uid, restaurant_id) ==
    \E r \in SelectRestaurants(uid) :
        /\ restaurants[r].id = restaurant_id
        /\ restaurants[r].seller_id = uid

\* "Sellers can view own dishes": USING (EXISTS (... seller_id = auth.uid()))
SellersCanViewOwnDishes(uid, row) == OwnsRestaurant(uid, row.restaurant_id)

\* SELECT * FROM dishes, as uid.
SelectDishes(uid) ==
    {id \in DOMAIN dishes :
        \/ AnyoneCanViewAvailableDishes(uid, dishes[id])
        \/ SellersCanViewOwnDishes(uid, dishes[id])}

\* "Sellers can insert dishes to own restaurants": WITH CHECK (EXISTS ...)
SellersCanInsertDishesToOwnRestaurants(uid, row) ==
    OwnsRestaurant(uid, row.restaurant_id)

\* "Sellers can update own dishes": USING (EXISTS ...)
SellersCanUpdateOwnDishesUsing(uid, row) == OwnsRestaurant(uid, row.restaurant_id)

\* Mutant: the sub-select without restaurants.id = dishes.restaurant_id.
SellersCanUpdateOwnDishesCheck_AnyParent(uid, row) ==
    \E r \in SelectRestaurants(uid) : restaurants[r].seller_id = uid

\* "Sellers can update own dishes": WITH CHECK (EXISTS ...)
SellersCanUpdateOwnDishesCheck(uid, row) == OwnsRestaurant(uid, row.restaurant_id)

\* "Sellers can delete own dishes": USING (EXISTS ...)
SellersCanDeleteOwnDishes(uid, row) == OwnsRestaurant(uid, row.restaurant_id)

\* INSERT INTO dishes VALUES (row), as uid; the id is generated.
DishesInsert(uid, row) ==
    /\ generated.dishes < MaxDishes
    /\ row.id = generated.dishes + 1
    /\ row.restaurant_id \in DOMAIN restaurants   \* REFERENCES restaurants(id)
    /\ DishesCheck(row)
    /\ SellersCanInsertDishesToOwnRestaurants(uid, row)
    /\ dishes' = With(dishes, row)
    /\ generated' = [generated EXCEPT !.dishes = row.id]
    /\ last' = Committed("dishes", "insert", uid, row.id)
    /\ UNCHANGED <<profiles, restaurants, orders, order_items>>

\* UPDATE dishes SET (restaurant_id, price, is_available) = row WHERE id = id.
DishesUpdate(uid, id, row) ==
    /\ id \in DOMAIN dishes
    /\ SellersCanUpdateOwnDishesUsing(uid, dishes[id])
    /\ row.id = id
    /\ row.restaurant_id \in DOMAIN restaurants   \* REFERENCES restaurants(id)
    /\ DishesCheck(row)
    /\ SellersCanUpdateOwnDishesCheck(uid, row)
    /\ dishes' = With(dishes, row)
    /\ last' = Committed("dishes", "update", uid, id)
    /\ UNCHANGED <<profiles, restaurants, orders, order_items, generated>>

\* DELETE FROM dishes WHERE id = id, as uid; the order_items that reference
\* the dish go with it (dish_id ... ON DELETE CASCADE).
DishesDelete(uid, id) ==
    /\ id \in DOMAIN dishes
    /\ SellersCanDeleteOwnDishes(uid, dishes[id])
    /\ dishes' = Without(dishes, {id})
    /\ order_items' = Without(order_items, OrderItemsOf({}, {id}))
    /\ last' = Committed("dishes", "delete", uid, id)
    /\ UNCHANGED <<profiles, restaurants, orders, generated>>

\* ================================================================= orders
\* Mutant: the table without CHECK (status IN (...)).
OrdersCheck_AnyStatus(row) == row.total_amount >= 0

\* CREATE TABLE orders: CHECK (total_amount >= 0), CHECK (status IN (...)).
OrdersCheck(row) ==
    /\ row.total_amount >= 0
    /\ row.status \in OrderStatus

\* "Customers can view own orders": USING (customer_id = auth.uid())
CustomersCanViewOwnOrders(uid, row) == row.customer_id = uid

\* Mutant: the sub-select without restaurants.id = orders.restaurant_id.
SellersCanViewOrdersForTheirRestaurants_AnyRestaurant(uid, row) ==
    \E r \in SelectRestaurants(uid) : restaurants[r].seller_id = uid

\* "Sellers can view orders for their restaurants": USING (EXISTS (SELECT 1
\* FROM restaurants WHERE restaurants.id = orders.restaurant_id AND
\* restaurants.seller_id = auth.uid()))
SellersCanViewOrdersForTheirRestaurants(uid, row) ==
    OwnsRestaurant(uid, row.restaurant_id)

\* Mutant: orders without ENABLE ROW LEVEL SECURITY.
SelectOrders_NoRowSecurity(uid) == DOMAIN orders

\* SELECT * FROM orders, as uid.
SelectOrders(uid) ==
    {id \in DOMAIN orders :
        \/ CustomersCanViewOwnOrders(uid, orders[id])
        \/ SellersCanViewOrdersForTheirRestaurants(uid, orders[id])}

\* Mutant: the policy without the sub-select on the caller's user_type.
CustomersCanInsertOwnOrders_AnyUserType(uid, row) == row.customer_id = uid

\* "Customers can insert own orders": WITH CHECK (customer_id = auth.uid()
\* AND EXISTS (SELECT 1 FROM profiles WHERE profiles.id = auth.uid() AND
\* profiles.user_type = 'customer'))
CustomersCanInsertOwnOrders(uid, row) ==
    /\ row.customer_id = uid
    /\ \E p \in SelectProfiles(uid) :
          /\ profiles[p].id = uid
          /\ profiles[p].user_type = "customer"

\* "Customers can update own orders": USING (customer_id = auth.uid())
CustomersCanUpdateOwnOrdersUsing(uid, row) == row.customer_id = uid

\* "Customers can update own orders": WITH CHECK (customer_id = auth.uid())
CustomersCanUpdateOwnOrdersCheck(uid, row) == row.customer_id = uid

\* Mutant: the sub-select without restaurants.id = orders.restaurant_id.
SellersCanUpdateOrdersForTheirRestaurantsUsing_AnyRestaurant(uid, row) ==
    \E r \in SelectRestaurants(uid) : restaurants[r].seller_id = uid

\* "Sellers can update orders for their restaurants": USING (EXISTS ...)
SellersCanUpdateOrdersForTheirRestaurantsUsing(uid, row) ==
    OwnsRestaurant(uid, row.restaurant_id)

\* Mutant: the sub-select with restaurants.is_active = true added.
SellersCanUpdateOrdersForTheirRestaurantsCheck_ActiveOnly(uid, row) ==
    \E r \in SelectRestaurants(uid) :
        /\ restaurants[r].id = row.restaurant_id
        /\ restaurants[r].seller_id = uid
        /\ restaurants[r].is_active = TRUE

\* "Sellers can update orders for their restaurants": WITH CHECK (EXISTS ...)
SellersCanUpdateOrdersForTheirRestaurantsCheck(uid, row) ==
    OwnsRestaurant(uid, row.restaurant_id)

\* The two UPDATE policies of orders, OR-ed: on the existing row ...
OrdersUpdateUsing(uid, row) ==
    \/ CustomersCanUpdateOwnOrdersUsing(uid, row)
    \/ SellersCanUpdateOrdersForTheirRestaurantsUsing(uid, row)

\* ... and on the new row.
OrdersUpdateCheck(uid, row) ==
    \/ CustomersCanUpdateOwnOrdersCheck(uid, row)
    \/ SellersCanUpdateOrdersForTheirRestaurantsCheck(uid, row)

\* INSERT INTO orders VALUES (row), as uid; the id is generated.
OrdersInsert(uid, row) ==
    /\ generated.orders < MaxOrders
    /\ row.id = generated.orders + 1
    /\ row.customer_id \in DOMAIN profiles        \* REFERENCES profiles(id)
    /\ row.restaurant_id \in DOMAIN restaurants   \* REFERENCES restaurants(id)
    /\ OrdersCheck(row)
    /\ CustomersCanInsertOwnOrders(uid, row)
    /\ orders' = With(orders, row)
    /\ generated' = [generated EXCEPT !.orders = row.id]
    /\ last' = Committed("orders", "insert", uid, row.id)
    /\ UNCHANGED <<profiles, restaurants, dishes, order_items>>

\* UPDATE orders SET (customer_id, restaurant_id, total_amount, status) = row
\* WHERE id = id, as uid.
OrdersUpdate(uid, id, row) ==
    /\ id \in DOMAIN orders
    /\ OrdersUpdateUsing(uid, orders[id])
    /\ row.id = id
    /\ row.customer_id \in DOMAIN profiles        \* REFERENCES profiles(id)
    /\ row.restaurant_id \in DOMAIN restaurants   \* REFERENCES restaurants(id)
    /\ OrdersCheck(row)
    /\ OrdersUpdateCheck(uid, row)
    /\ orders' = With(orders, row)
    /\ last' = Committed("orders", "update", uid, id)
    /\ UNCHANGED <<profiles, restaurants, dishes, order_items, generated>>

\* ============================================================ order_items
\* CREATE TABLE order_items: CHECK (quantity > 0), CHECK (price >= 0).
OrderItemsCheck(row) ==
    /\ row.quantity > 0
    /\ row.price >= 0

\* "Customers can view own order items": USING (EXISTS (SELECT 1 FROM orders
\* WHERE orders.id = order_items.order_id AND orders.customer_id = auth.uid()))
CustomersCanViewOwnOrderItems(uid, row) ==
    \E o \in SelectOrders(uid) :
        /\ orders[o].id = row.order_id
        /\ orders[o].customer_id = uid

\* "Sellers can view order items for their restaurants": USING (EXISTS (SELECT
\* 1 FROM orders JOIN restaurants ON restaurants.id = orders.restaurant_id
\* WHERE orders.id = order_items.order_id AND restaurants.seller_id = auth.uid()))
SellersCanViewOrderItemsForTheirRestaurants(uid, row) ==
    \E o \in SelectOrders(uid) : \E r \in SelectRestaurants(uid) :
        /\ restaurants[r].id = orders[o].restaurant_id
        /\ orders[o].id = row.order_id
        /\ restaurants[r].seller_id = uid

\* Mutant: order_items without ENABLE ROW LEVEL SECURITY.
SelectOrderItems_NoRowSecurity(uid) == DOMAIN order_items

\* SELECT * FROM order_items, as uid.
SelectOrderItems(uid) ==
    {id \in DOMAIN order_items :
        \/ CustomersCanViewOwnOrderItems(uid, order_items[id])
        \/ SellersCanViewOrderItemsForTheirRestaurants(uid, order_items[id])}

\* Mutant: the sub-select without orders.customer_id = auth.uid().
CustomersCanInsertOwnOrderItems_AnyReader(uid, row) ==
    \E o \in SelectOrders(uid) : orders[o].id = row.order_id

\* "Customers can insert own order items": WITH CHECK (EXISTS (SELECT 1 FROM
\* orders WHERE orders.id = order_items.order_id AND orders.customer_id =
\* auth.uid()))
CustomersCanInsertOwnOrderItems(uid, row) ==
    \E o \in SelectOrders(uid) :
        /\ orders[o].id = row.order_id
        /\ orders[o].customer_id = uid

\* INSERT INTO order_items VALUES (row), as uid; the id is generated.
OrderItemsInsert(uid, row) ==
    /\ generated.order_items < MaxOrderItems
    /\ row.id = generated.order_items + 1
    /\ row.order_id \in DOMAIN orders     \* REFERENCES orders(id)
    /\ row.dish_id \in DOMAIN dishes      \* REFERENCES dishes(id)
    /\ OrderItemsCheck(row)
    /\ CustomersCanInsertOwnOrderItems(uid, row)
    /\ order_items' = With(order_items, row)
    /\ generated' = [generated EXCEPT !.order_items = row.id]
    /\ last' = Committed("order_items", "insert", uid, row.id)
    /\ UNCHANGED <<profiles, restaurants, dishes, orders>>

\* INSERT INTO order_items VALUES (rows[1]), ..., (rows[n]), as uid: one
\* statement, so every row passes the constraints and the policy and all are
\* stored, or none is.  The ids are generated.
OrderItemsInsertRows(uid, rows) ==
    /\ rows # <<>>
    /\ generated.order_items < MaxOrderItems
    /\ \A k \in DOMAIN rows :
          /\ rows[k].id = generated.order_items + k
          /\ rows[k].order_id \in DOMAIN orders     \* REFERENCES orders(id)
          /\ rows[k].dish_id \in DOMAIN dishes      \* REFERENCES dishes(id)
          /\ OrderItemsCheck(rows[k])
          /\ CustomersCanInsertOwnOrderItems(uid, rows[k])
    /\ order_items' =
          [id \in DOMAIN order_items \cup {rows[k].id : k \in DOMAIN rows} |->
              IF id \in DOMAIN order_items THEN order_items[id]
              ELSE rows[id - generated.order_items]]
    /\ generated' = [generated EXCEPT !.order_items = @ + Len(rows)]
    /\ last' = Committed("order_items", "insert", uid, rows[1].id)
    /\ UNCHANGED <<profiles, restaurants, dishes, orders>>

\* ================================================== the customer's client
\* A state that holds no row (React's null).
null == [id |-> 0]

\* useAuth().profile: the identity the session is signed in as.
profile == [id |-> 1]

\* Cart's useState initial values.
CartMounted ==
    [deliveryAddress |-> "", loading |-> FALSE, error |-> "", success |-> FALSE]

\* RestaurantView's useState initial values.
RestaurantViewMounted == [dishes |-> {}, loading |-> TRUE]

\* No handlePlaceOrder is running.
Idle == [pc |-> "idle", items |-> <<>>, order |-> null]

\* What CustomerDashboard renders: RestaurantView if a restaurant is selected,
\* else Cart if showCart, else the list of restaurants.
Screen ==
    IF selectedRestaurant # null THEN "RestaurantView"
    ELSE IF showCart THEN "Cart" ELSE "CustomerDashboard"

\* CustomerDashboard.loadRestaurants, run once on mount: the select, or its
\* error, which leaves the list as it is.
loadRestaurants ==
    /\ loading
    /\ \/ restaurantList' =
             {restaurants[r] : r \in {x \in SelectRestaurants(profile.id) :
                                          restaurants[x].is_active = TRUE}}
       \/ UNCHANGED restaurantList
    /\ loading' = FALSE
    /\ UNCHANGED <<database, selectedRestaurant, cartItems, showCart,
                   restaurantView, cart, placing, timer>>

\* onClick={() => setSelectedRestaurant(restaurant)} on the list; RestaurantView
\* mounts and its effect sends loadDishes.
setSelectedRestaurant(restaurant) ==
    /\ Screen = "CustomerDashboard" /\ ~loading
    /\ restaurant \in restaurantList
    /\ selectedRestaurant' = restaurant
    /\ restaurantView' = RestaurantViewMounted
    /\ UNCHANGED <<database, restaurantList, loading, cartItems, showCart, cart,
                   placing, timer>>

\* RestaurantView.loadDishes: the select, or its error.
loadDishes ==
    /\ Screen = "RestaurantView" /\ restaurantView.loading
    /\ \/ restaurantView' =
             [dishes |-> {dishes[d] : d \in {x \in SelectDishes(profile.id) :
                              /\ dishes[x].restaurant_id = selectedRestaurant.id
                              /\ dishes[x].is_available = TRUE}},
              loading |-> FALSE]
       \/ restaurantView' = [restaurantView EXCEPT !.loading = FALSE]
    /\ UNCHANGED <<database, restaurantList, loading, selectedRestaurant,
                   cartItems, showCart, cart, placing, timer>>

\* onBack={() => setSelectedRestaurant(null)}; Cart mounts if it was asked for.
onBack ==
    /\ Screen = "RestaurantView"
    /\ selectedRestaurant' = null
    /\ restaurantView' = null
    /\ cart' = IF showCart THEN CartMounted ELSE cart
    /\ UNCHANGED <<database, restaurantList, loading, cartItems, showCart,
                   placing, timer>>

\* onShowCart / the cart button: setShowCart(true).
onShowCart ==
    /\ Screen # "Cart"
    /\ showCart' = TRUE
    /\ cart' = IF selectedRestaurant = null THEN CartMounted ELSE cart
    /\ UNCHANGED <<database, restaurantList, loading, selectedRestaurant,
                   cartItems, restaurantView, placing, timer>>

\* Cart's onClose={() => setShowCart(false)}, from the X button or "Browse
\* Restaurants".  The customer is taken to wait for the outcome of a running
\* handlePlaceOrder before closing the cart.
onClose ==
    /\ Screen = "Cart" /\ ~cart.success
    /\ placing.pc = "idle"
    /\ showCart' = FALSE
    /\ cart' = null
    /\ UNCHANGED <<database, restaurantList, loading, selectedRestaurant,
                   cartItems, restaurantView, placing, timer>>

\* CustomerDashboard.addToCart(dish, restaurant), from RestaurantView's "Add
\* to Cart" on a dish it has loaded.
addToCart(dish, restaurant) ==
    /\ \A k \in DOMAIN cartItems :
          cartItems[k].dish.id = dish.id => cartItems[k].quantity < MaxCartQuantity
    /\ cartItems' =
          IF \E k \in DOMAIN cartItems : cartItems[k].dish.id = dish.id
          THEN [k \in DOMAIN cartItems |->
                   IF cartItems[k].dish.id = dish.id
                   THEN [cartItems[k] EXCEPT !.quantity = @ + 1]
                   ELSE cartItems[k]]
          ELSE Append(cartItems,
                      [dish |-> dish, restaurant |-> restaurant, quantity |-> 1])
    /\ UNCHANGED <<database, restaurantList, loading, selectedRestaurant,
                   showCart, restaurantView, cart, placing, timer>>

\* Mutant: updateCartItem without its quantity === 0 branch.
updateCartItem_KeepsZero(dishId, quantity) ==
    /\ quantity <= MaxCartQuantity
    /\ cartItems' =
          [k \in DOMAIN cartItems |->
              IF cartItems[k].dish.id = dishId
              THEN [cartItems[k] EXCEPT !.quantity = quantity]
              ELSE cartItems[k]]
    /\ UNCHANGED <<database, restaurantList, loading, selectedRestaurant,
                   showCart, restaurantView, cart, placing, timer>>

\* CustomerDashboard.updateCartItem(dishId, quantity), from Cart's minus, plus
\* and remove buttons.
updateCartItem(dishId, quantity) ==
    /\ quantity <= MaxCartQuantity
    /\ cartItems' =
          IF quantity = 0
          THEN LET Kept(item) == item.dish.id # dishId
               IN  SelectSeq(cartItems, Kept)
          ELSE [k \in DOMAIN cartItems |->
                   IF cartItems[k].dish.id = dishId
                   THEN [cartItems[k] EXCEPT !.quantity = quantity]
                   ELSE cartItems[k]]
    /\ UNCHANGED <<database, restaurantList, loading, selectedRestaurant,
                   showCart, restaurantView, cart, placing, timer>>

\* CustomerDashboard.clearCart.
clearCart == <<>>

\* Cart: onChange={(e) => setDeliveryAddress(e.target.value)}.
setDeliveryAddress(text) ==
    /\ Screen = "Cart" /\ ~cart.success
    /\ cartItems # <<>>
    /\ text # cart.deliveryAddress
    /\ cart' = [cart EXCEPT !.deliveryAddress = text]
    /\ UNCHANGED <<database, restaurantList, loading, selectedRestaurant,
                   cartItems, showCart, restaurantView, placing, timer>>

\* Mutant: the sum of the prices, whatever the quantities.
total_Prices(items) ==
    LET RECURSIVE sum(_)
        sum(k) == IF k = 0 THEN 0 ELSE sum(k - 1) + items[k].dish.price
    IN  sum(Len(items))

\* Cart: total = items.reduce((sum, item) => sum + item.dish.price *
\* item.quantity, 0).
total(items) ==
    LET RECURSIVE sum(_)
        sum(k) == IF k = 0 THEN 0
                  ELSE sum(k - 1) + items[k].dish.price * items[k].quantity
    IN  sum(Len(items))

\* String.prototype.trim on the texts the customer types here: a text of
\* white space only gives the empty text, any other text has none at its ends.
trim(text) == IF text \in {"", " "} THEN "" ELSE text

\* Mutant: the Place Order button without disabled={loading}.
handlePlaceOrder_NotDisabled ==
    /\ Screen = "Cart" /\ ~cart.success
    /\ cartItems # <<>>
    /\ IF trim(cart.deliveryAddress) = ""
       THEN /\ cart' = [cart EXCEPT !.error = "Please enter a delivery address"]
            /\ UNCHANGED placing
       ELSE /\ cart' = [cart EXCEPT !.error = "", !.loading = TRUE]
            /\ placing' = [pc |-> "order", items |-> cartItems, order |-> null]
    /\ UNCHANGED <<database, restaurantList, loading, selectedRestaurant,
                   cartItems, showCart, restaurantView, timer>>

\* handlePlaceOrder, from the click to the first await: the address check,
\* then the orders insert is sent with the items and the total of this render.
\* The button is disabled while loading.
handlePlaceOrder ==
    /\ Screen = "Cart" /\ ~cart.success
    /\ cartItems # <<>>
    /\ ~cart.loading
    /\ IF trim(cart.deliveryAddress) = ""
       THEN /\ cart' = [cart EXCEPT !.error = "Please enter a delivery address"]
            /\ UNCHANGED placing
       ELSE /\ cart' = [cart EXCEPT !.error = "", !.loading = TRUE]
            /\ placing' = [pc |-> "order", items |-> cartItems, order |-> null]
    /\ UNCHANGED <<database, restaurantList, loading, selectedRestaurant,
                   cartItems, showCart, restaurantView, timer>>

\* The row of supabase.from('orders').insert({...}).
OrderRequest ==
    [id |-> generated.orders + 1,
     customer_id |-> profile.id,
     restaurant_id |-> placing.items[1].restaurant.id,
     total_amount |-> total(placing.items),
     status |-> "pending"]

\* handlePlaceOrder, first await: the orders insert commits and returns the
\* row; the order_items insert is sent.
handlePlaceOrderOrder ==
    /\ placing.pc = "order"
    /\ OrdersInsert(profile.id, OrderRequest)
    /\ placing' = [placing EXCEPT !.pc = "items", !.order = OrderRequest]
    /\ UNCHANGED <<restaurantList, loading, selectedRestaurant, cartItems,
                   showCart, restaurantView, cart, timer>>

\* handlePlaceOrder, first await: orderError (the backend refuses the insert
\* or the request does not get through) is thrown; catch and finally run.
handlePlaceOrderOrderError ==
    /\ placing.pc = "order"
    /\ placing' = Idle
    /\ cart' = [cart EXCEPT !.error = "An error occurred", !.loading = FALSE]
    /\ UNCHANGED <<database, restaurantList, loading, selectedRestaurant,
                   cartItems, showCart, restaurantView, timer>>

\* The rows of supabase.from('order_items').insert(orderItems).
OrderItemsRequest ==
    [k \in DOMAIN placing.items |->
        [id |-> generated.order_items + k,
         order_id |-> placing.order.id,
         dish_id |-> placing.items[k].dish.id,
         quantity |-> placing.items[k].quantity,
         price |-> placing.items[k].dish.price]]

\* handlePlaceOrder, second await: the order_items insert commits;
\* setSuccess(true), the timeout is set, finally runs.
handlePlaceOrderItems ==
    /\ placing.pc = "items"
    /\ OrderItemsInsertRows(profile.id, OrderItemsRequest)
    /\ placing' = Idle
    /\ cart' = [cart EXCEPT !.success = TRUE, !.loading = FALSE]
    /\ timer' = TRUE
    /\ UNCHANGED <<restaurantList, loading, selectedRestaurant, cartItems,
                   showCart, restaurantView>>

\* Mutant: the catch block undoes the placement: it deletes nothing it may
\* not, but clears the cart as the success path does.
handlePlaceOrderItemsError_ClearsCart ==
    /\ placing.pc = "items"
    /\ placing' = Idle
    /\ cart' = [cart EXCEPT !.error = "An error occurred", !.loading = FALSE]
    /\ cartItems' = clearCart
    /\ UNCHANGED <<database, restaurantList, loading, selectedRestaurant,
                   showCart, restaurantView, timer>>

\* handlePlaceOrder, second await: itemsError is thrown; catch and finally run.
handlePlaceOrderItemsError ==
    /\ placing.pc = "items"
    /\ placing' = Idle
    /\ cart' = [cart EXCEPT !.error = "An error occurred", !.loading = FALSE]
    /\ UNCHANGED <<database, restaurantList, loading, selectedRestaurant,
                   cartItems, showCart, restaurantView, timer>>

\* Mutant: the callback only closes the cart.
handlePlaceOrderTimeout_OnlyCloses ==
    /\ timer
    /\ timer' = FALSE
    /\ showCart' = FALSE
    /\ cart' = null
    /\ UNCHANGED <<database, restaurantList, loading, selectedRestaurant,
                   cartItems, restaurantView, placing>>

\* The setTimeout callback, 2000 ms after success: onClearCart(); onClose().
handlePlaceOrderTimeout ==
    /\ timer
    /\ timer' = FALSE
    /\ cartItems' = clearCart
    /\ showCart' = FALSE
    /\ cart' = null
    /\ UNCHANGED <<database, restaurantList, loading, selectedRestaurant,
                   restaurantView, placing>>

\* ========================================================== specification
\* The database after the migration has run: five empty tables; the client
\* as CustomerDashboard's useState calls leave it.
Init ==
    /\ profiles = <<>>
    /\ restaurants = <<>>
    /\ dishes = <<>>
    /\ orders = <<>>
    /\ order_items = <<>>
    /\ generated = [restaurants |-> 0, dishes |-> 0, orders |-> 0, order_items |-> 0]
    /\ last = Committed("none", "none", 0, 0)
    /\ restaurantList = {}
    /\ loading = TRUE
    /\ selectedRestaurant = null
    /\ cartItems = <<>>
    /\ showCart = FALSE
    /\ restaurantView = null
    /\ cart = null
    /\ placing = Idle
    /\ timer = FALSE

\* What a request may carry in each column: legal values and one value on the
\* far side of each CHECK constraint.
UserTypeInput == UserType \cup {"admin"}

PriceInput == (-1)..MaxPrice

AmountInput == {-1, MaxPrice}

QuantityInput == 0..MaxQuantity

StatusInput == {"pending", "confirmed", "refunded"}

ProfileRows == [id : Users, user_type : UserTypeInput]

RestaurantRows == [id : 1..MaxRestaurants, seller_id : Users, is_active : BOOLEAN]

DishRows ==
    [id : 1..MaxDishes, restaurant_id : 1..MaxRestaurants, price : PriceInput,
     is_available : BOOLEAN]

OrderRows ==
    [id : 1..MaxOrders, customer_id : Users, restaurant_id : 1..MaxRestaurants,
     total_amount : AmountInput, status : StatusInput]

OrderItemRows ==
    [id : 1..MaxOrderItems, order_id : 1..MaxOrders, dish_id : 1..MaxDishes,
     quantity : QuantityInput, price : AmountInput]

\* Rows with the columns that no order_items policy reads held fixed.
PlainDishRows == {row \in DishRows : row.price = MaxPrice /\ row.is_available}

PendingOrderRows ==
    {row \in OrderRows : row.total_amount = MaxPrice /\ row.status = "pending"}

\* Every row operation the policies leave open, sent by any identity.  There
\* is no DELETE policy on profiles and orders and no UPDATE or DELETE policy
\* on order_items, so those commands touch no row and are no step.
Next ==
    /\ UNCHANGED client
    /\ \E uid \in Users :
           \/ \E row \in ProfileRows : ProfilesInsert(uid, row)
           \/ \E id \in Users, row \in ProfileRows : ProfilesUpdate(uid, id, row)
           \/ \E row \in RestaurantRows : RestaurantsInsert(uid, row)
           \/ \E row \in RestaurantRows : RestaurantsUpdate(uid, row.id, row)
           \/ \E id \in 1..MaxRestaurants : RestaurantsDelete(uid, id)
           \/ \E row \in DishRows : DishesInsert(uid, row)
           \/ \E row \in DishRows : DishesUpdate(uid, row.id, row)
           \/ \E id \in 1..MaxDishes : DishesDelete(uid, id)
           \/ \E row \in OrderRows : OrdersInsert(uid, row)
           \/ \E row \in OrderRows : OrdersUpdate(uid, row.id, row)
           \/ \E row \in OrderItemRows : OrderItemsInsert(uid, row)

Spec == Init /\ [][Next]_vars

\* The claims are checked on the part of the system that can influence them:
\* a policy reads only its own table and the tables of its sub-selects, and a
\* table is written only by its own commands and by cascades from its parents.

\* profiles and restaurants: nothing else writes or is read by their policies.
NextRestaurants ==
    /\ UNCHANGED client
    /\ \E uid \in Users :
           \/ \E row \in ProfileRows : ProfilesInsert(uid, row)
           \/ \E id \in Users, row \in ProfileRows : ProfilesUpdate(uid, id, row)
           \/ \E row \in RestaurantRows : RestaurantsInsert(uid, row)
           \/ \E row \in RestaurantRows : RestaurantsUpdate(uid, row.id, row)
           \/ \E id \in 1..MaxRestaurants : RestaurantsDelete(uid, id)

SpecRestaurants == Init /\ [][NextRestaurants]_vars

\* The catalog: profiles, restaurants and dishes.
NextCatalog ==
    /\ UNCHANGED client
    /\ \E uid \in Users :
           \/ \E row \in ProfileRows : ProfilesInsert(uid, row)
           \/ \E id \in Users, row \in ProfileRows : ProfilesUpdate(uid, id, row)
           \/ \E row \in RestaurantRows : RestaurantsInsert(uid, row)
           \/ \E row \in RestaurantRows : RestaurantsUpdate(uid, row.id, row)
           \/ \E id \in 1..MaxRestaurants : RestaurantsDelete(uid, id)
           \/ \E row \in DishRows : DishesInsert(uid, row)
           \/ \E row \in DishRows : DishesUpdate(uid, row.id, row)
           \/ \E id \in 1..MaxDishes : DishesDelete(uid, id)

SpecCatalog == Init /\ [][NextCatalog]_vars

\* The order ledger without its line items: profiles, restaurants and orders.
NextOrders ==
    /\ UNCHANGED client
    /\ \E uid \in Users :
           \/ \E row \in ProfileRows : ProfilesInsert(uid, row)
           \/ \E id \in Users, row \in ProfileRows : ProfilesUpdate(uid, id, row)
           \/ \E row \in RestaurantRows : RestaurantsInsert(uid, row)
           \/ \E row \in RestaurantRows : RestaurantsUpdate(uid, row.id, row)
           \/ \E id \in 1..MaxRestaurants : RestaurantsDelete(uid, id)
           \/ \E row \in OrderRows : OrdersInsert(uid, row)
           \/ \E row \in OrderRows : OrdersUpdate(uid, row.id, row)

SpecOrders == Init /\ [][NextOrders]_vars

\* The line items: all five tables.  Dishes matter to order_items only by
\* existing (dish_id REFERENCES dishes ON DELETE CASCADE), and orders only by
\* their customer_id and restaurant_id, so the other columns are held fixed.
NextOrderItems ==
    /\ UNCHANGED client
    /\ \E uid \in Users :
           \/ \E row \in ProfileRows : ProfilesInsert(uid, row)
           \/ \E id \in Users, row \in ProfileRows : ProfilesUpdate(uid, id, row)
           \/ \E row \in RestaurantRows : RestaurantsInsert(uid, row)
           \/ \E row \in RestaurantRows : RestaurantsUpdate(uid, row.id, row)
           \/ \E id \in 1..MaxRestaurants : RestaurantsDelete(uid, id)
           \/ \E row \in PlainDishRows : DishesInsert(uid, row)
           \/ \E id \in 1..MaxDishes : DishesDelete(uid, id)
           \/ \E row \in PendingOrderRows : OrdersInsert(uid, row)
           \/ \E row \in PendingOrderRows : OrdersUpdate(uid, row.id, row)
           \/ \E row \in OrderItemRows : OrderItemsInsert(uid, row)

SpecOrderItems == Init /\ [][NextOrderItems]_vars

\* The CHECK constraints: all five tables, with prices, amounts and quantities
\* on both sides of each constraint; the flags and statuses that no CHECK on
\* a number reads are held fixed.
AvailableDishRows == {row \in DishRows : row.is_available}

AmountOrderRows == {row \in OrderRows : row.status = "pending"}

NextIntegrity ==
    /\ UNCHANGED client
    /\ \E uid \in Users :
           \/ \E row \in ProfileRows : ProfilesInsert(uid, row)
           \/ \E row \in RestaurantRows : RestaurantsInsert(uid, row)
           \/ \E id \in 1..MaxRestaurants : RestaurantsDelete(uid, id)
           \/ \E row \in AvailableDishRows : DishesInsert(uid, row)
           \/ \E row \in AvailableDishRows : DishesUpdate(uid, row.id, row)
           \/ \E id \in 1..MaxDishes : DishesDelete(uid, id)
           \/ \E row \in AmountOrderRows : OrdersInsert(uid, row)
           \/ \E row \in AmountOrderRows : OrdersUpdate(uid, row.id, row)
           \/ \E row \in OrderItemRows : OrderItemsInsert(uid, row)

SpecIntegrity == Init /\ [][NextIntegrity]_vars

\* The status of an order: orders enter as the client sends them, pending,
\* and every identity tries to set every stored order to every other status.
NextStatus ==
    /\ UNCHANGED client
    /\ \E uid \in Users :
           \/ \E row \in ProfileRows : ProfilesInsert(uid, row)
           \/ \E id \in Users, row \in ProfileRows : ProfilesUpdate(uid, id, row)
           \/ \E row \in RestaurantRows : RestaurantsInsert(uid, row)
           \/ \E row \in RestaurantRows : RestaurantsUpdate(uid, row.id, row)
           \/ \E id \in 1..MaxRestaurants : RestaurantsDelete(uid, id)
           \/ \E row \in PendingOrderRows : OrdersInsert(uid, row)
           \/ \E o \in DOMAIN orders, status \in OrderStatus \ {"pending"} :
                 /\ status # orders[o].status
                 /\ OrdersUpdate(uid, o, [orders[o] EXCEPT !.status = status])
           \/ \E o \in DOMAIN orders :
                 /\ orders[o].status # "pending"
                 /\ OrdersUpdate(uid, o, [orders[o] EXCEPT !.status = "pending"])

SpecStatus == Init /\ [][NextStatus]_vars

\* The customer's session.  It starts over a catalog the sellers have built
\* (identity 1 a customer, identity 2 the seller of every restaurant, MaxMenu
\* available dishes on the menu of restaurant 1), with CustomerDashboard just
\* mounted.
InitCustomer ==
    /\ profiles = <<[id |-> 1, user_type |-> "customer"],
                    [id |-> 2, user_type |-> "seller"]>>
    /\ restaurants =
          [r \in 1..MaxRestaurants |-> [id |-> r, seller_id |-> 2, is_active |-> TRUE]]
    /\ dishes \in
          {menu \in [1..MaxMenu ->
                        [id : 1..MaxMenu, restaurant_id : 1..MaxRestaurants,
                         price : {MaxMenuPrice}, is_available : {TRUE}]] :
              /\ \A d \in 1..MaxMenu : menu[d].id = d
              /\ \A d \in 1..MaxMenu : menu[d].restaurant_id = 1}
    /\ orders = <<>>
    /\ order_items = <<>>
    /\ generated = [restaurants |-> MaxRestaurants, dishes |-> MaxMenu,
                    orders |-> 0, order_items |-> 0]
    /\ last = Committed("dishes", "insert", 2, MaxMenu)
    /\ restaurantList = {}
    /\ loading = TRUE
    /\ selectedRestaurant = null
    /\ cartItems = <<>>
    /\ showCart = FALSE
    /\ restaurantView = null
    /\ cart = null
    /\ placing = Idle
    /\ timer = FALSE

\* What the customer may type as a delivery address: nothing, a blank, or
\* something.
DeliveryAddressInput == {"", " ", "12 Main St"}

\* The customer's event handlers.
NextClient ==
    \/ loadRestaurants
    \/ \E restaurant \in restaurantList : setSelectedRestaurant(restaurant)
    \/ loadDishes
    \/ onBack
    \/ onShowCart
    \/ onClose
    \/ /\ Screen = "RestaurantView"
       /\ \E dish \in restaurantView.dishes : addToCart(dish, selectedRestaurant)
    \/ /\ Screen = "Cart" /\ ~cart.success
       /\ \E k \in DOMAIN cartItems :
             \E quantity \in {cartItems[k].quantity - 1, cartItems[k].quantity + 1, 0} :
                 updateCartItem(cartItems[k].dish.id, quantity)
    \/ \E text \in DeliveryAddressInput : setDeliveryAddress(text)
    \/ handlePlaceOrder
    \/ handlePlaceOrderOrder
    \/ handlePlaceOrderOrderError
    \/ handlePlaceOrderItems
    \/ handlePlaceOrderItemsError
    \/ handlePlaceOrderTimeout

\* The customer's session while prices change: beside the customer's handlers,
\* DishForm's update of a dish's price, sent by any identity.
NextCustomer ==
    \/ NextClient
    \/ /\ UNCHANGED client
       /\ \E uid \in Users, d \in DOMAIN dishes, price \in 1..MaxMenuPrice :
             /\ price # dishes[d].price
             /\ DishesUpdate(uid, d, [dishes[d] EXCEPT !.price = price])

SpecCustomer == InitCustomer /\ [][NextCustomer]_vars

\* The customer's session while dishes go: beside the customer's handlers,
\* handleDeleteDish, sent by any identity.
NextCheckout ==
    \/ NextClient
    \/ /\ UNCHANGED client
       /\ \E uid \in Users, d \in DOMAIN dishes : DishesDelete(uid, d)

SpecCheckout == InitCustomer /\ [][NextCheckout]_vars

\* The same, with the timer of the browser: a timeout that is set comes due.
SpecCheckoutTimer == SpecCheckout /\ WF_vars(handlePlaceOrderTimeout)

\* The customer's session over the menus of several restaurants: as
\* InitCustomer, but the dishes are spread over the restaurants (dish 1 on the
\* menu of restaurant 1, dish 2 on that of restaurant 2, and so on round).
InitBrowse ==
    /\ profiles = <<[id |-> 1, user_type |-> "customer"],
                    [id |-> 2, user_type |-> "seller"]>>
    /\ restaurants =
          [r \in 1..MaxRestaurants |-> [id |-> r, seller_id |-> 2, is_active |-> TRUE]]
    /\ dishes =
          [d \in 1..MaxMenu |->
              [id |-> d, restaurant_id |-> ((d - 1) % MaxRestaurants) + 1,
               price |-> MaxMenuPrice, is_available |-> TRUE]]
    /\ orders = <<>>
    /\ order_items = <<>>
    /\ generated = [restaurants |-> MaxRestaurants, dishes |-> MaxMenu,
                    orders |-> 0, order_items |-> 0]
    /\ last = Committed("dishes", "insert", 2, MaxMenu)
    /\ restaurantList = {}
    /\ loading = TRUE
    /\ selectedRestaurant = null
    /\ cartItems = <<>>
    /\ showCart = FALSE
    /\ restaurantView = null
    /\ cart = null
    /\ placing = Idle
    /\ timer = FALSE

\* Only the customer acts.
SpecBrowse == InitBrowse /\ [][NextClient]_vars

\* What an identity reads: all five tables, with the columns that a SELECT
\* policy reads (seller_id, is_active, restaurant_id, is_available,
\* customer_id, order_id) ranging and the other columns held fixed.  A profile
\* keeps the user_type it was inserted with.
ReadDishRows == {row \in DishRows : row.price = MaxPrice}

ReadOrderItemRows ==
    {row \in OrderItemRows : row.quantity = MaxQuantity /\ row.price = MaxPrice}

NextReads ==
    /\ UNCHANGED client
    /\ \E uid \in Users :
           \/ \E row \in ProfileRows : ProfilesInsert(uid, row)
           \/ \E row \in RestaurantRows : RestaurantsInsert(uid, row)
           \/ \E row \in RestaurantRows : RestaurantsUpdate(uid, row.id, row)
           \/ \E id \in 1..MaxRestaurants : RestaurantsDelete(uid, id)
           \/ \E row \in ReadDishRows : DishesInsert(uid, row)
           \/ \E row \in ReadDishRows : DishesUpdate(uid, row.id, row)
           \/ \E id \in 1..MaxDishes : DishesDelete(uid, id)
           \/ \E row \in PendingOrderRows : OrdersInsert(uid, row)
           \/ \E row \in PendingOrderRows : OrdersUpdate(uid, row.id, row)
           \/ \E row \in ReadOrderItemRows : OrderItemsInsert(uid, row)

SpecReads == Init /\ [][NextReads]_vars

\* ================================================================= claims
\* What reading an absent row gives: no identity in any column.
NoRow ==
    [id |-> 0, user_type |-> "none", seller_id |-> 0, is_active |-> FALSE,
     restaurant_id |-> 0, customer_id |-> 0, order_id |-> 0, dish_id |-> 0]

\* The row stored under id, read from the table itself (no policy applied).
Row(table, id) == IF id \in DOMAIN table THEN table[id] ELSE NoRow

\* The seller_id of a restaurant, read from the table itself.
SellerOf(restaurant_id) == Row(restaurants, restaurant_id).seller_id

\* The step committed command op on table.
Did(table, op) == last'.table = table /\ last'.op = op

\* C1 - Profile isolation: a select as P returns no profiles row but P's own,
\* and a step inserts, changes or removes the profiles row of identity id only
\* as a profiles insert or update sent by id itself, which leaves a row with
\* that id.
C1_ProfileIsolation ==
    /\ [](\A uid \in Users : \A id \in SelectProfiles(uid) : profiles[id].id = uid)
    /\ [][ /\ \A id \in Users :
                Row(profiles', id) # Row(profiles, id) =>
                    /\ last'.uid = id
                    /\ Did("profiles", "insert") \/ Did("profiles", "update")
           /\ Did("profiles", "insert") \/ Did("profiles", "update") =>
                    /\ last'.id = last'.uid
                    /\ Row(profiles', last'.uid).id = last'.uid
         ]_vars

\* C1 witness: an identity has just updated its profile while another
\* identity's profile exists and stays out of its select.
C1_Witness ==
    /\ last.table = "profiles" /\ last.op = "update"
    /\ \E other \in DOMAIN profiles :
          /\ other # last.uid
          /\ other \notin SelectProfiles(last.uid)
          /\ last.uid \in SelectProfiles(last.uid)

\* C2 - Order update authorization: a committed update of order o was sent by
\* o's customer_id or by the seller_id of o's restaurant (o as stored before
\* the update), and an order row changes in place in no other step.
C2_OrderUpdateAuthorization ==
    [][ /\ Did("orders", "update") =>
              \/ last'.uid = orders[last'.id].customer_id
              \/ last'.uid = SellerOf(orders[last'.id].restaurant_id)
        /\ \A o \in DOMAIN orders \cap DOMAIN orders' :
              orders'[o] # orders[o] => Did("orders", "update") /\ last'.id = o
      ]_vars

\* C2 witness: the seller of the order's restaurant, who is not its customer,
\* has just updated the order, and a third identity with a profile is neither.
C2_Witness ==
    /\ last.table = "orders" /\ last.op = "update"
    /\ last.id \in DOMAIN orders
    /\ orders[last.id].status = "confirmed"
    /\ last.uid = SellerOf(orders[last.id].restaurant_id)
    /\ last.uid # orders[last.id].customer_id
    /\ \E third \in DOMAIN profiles :
          /\ third # orders[last.id].customer_id
          /\ third # SellerOf(orders[last.id].restaurant_id)
          /\ ~OrdersUpdateUsing(third, orders[last.id])

\* C3 - Inactive-restaurant visibility: a select as X returns an inactive
\* restaurant exactly when X is its seller_id, and an active one to everyone.
C3_InactiveRestaurantVisibility ==
    \A uid \in Users : \A r \in DOMAIN restaurants :
        IF restaurants[r].is_active
        THEN r \in SelectRestaurants(uid)
        ELSE r \in SelectRestaurants(uid) <=> uid = restaurants[r].seller_id

\* C3 witness: an owner has just deactivated a restaurant; the owner still
\* reads it and another identity with a profile does not.
C3_Witness ==
    /\ last.table = "restaurants" /\ last.op = "update"
    /\ last.id \in DOMAIN restaurants
    /\ ~restaurants[last.id].is_active
    /\ last.id \in SelectRestaurants(restaurants[last.id].seller_id)
    /\ \E other \in DOMAIN profiles :
          /\ other # restaurants[last.id].seller_id
          /\ last.id \notin SelectRestaurants(other)

\* C4 - Dish visibility: the owner of the parent restaurant reads a dish
\* whatever the two flags are; any other caller reads it only when the dish is
\* available and the parent restaurant is active.
C4_DishVisibility ==
    \A uid \in Users : \A d \in DOMAIN dishes :
        IF uid = SellerOf(dishes[d].restaurant_id)
        THEN d \in SelectDishes(uid)
        ELSE d \in SelectDishes(uid) =>
                /\ dishes[d].is_available
                /\ Row(restaurants, dishes[d].restaurant_id).is_active

\* C4 witness: an available dish of an inactive restaurant, read by the owner
\* and by nobody else.
C4_Witness ==
    \E d \in DOMAIN dishes : \E other \in DOMAIN profiles :
        /\ dishes[d].is_available
        /\ ~restaurants[dishes[d].restaurant_id].is_active
        /\ other # SellerOf(dishes[d].restaurant_id)
        /\ d \notin SelectDishes(other)
        /\ d \in SelectDishes(SellerOf(dishes[d].restaurant_id))

\* C5 - Order visibility: a select as X returns order o exactly when X is
\* o's customer_id or the seller_id of o's restaurant.
C5_OrderVisibility ==
    \A uid \in Users : \A o \in DOMAIN orders :
        o \in SelectOrders(uid) <=>
            \/ uid = orders[o].customer_id
            \/ uid = SellerOf(orders[o].restaurant_id)

\* C5 witness: an order of an inactive restaurant that its customer and the
\* restaurant's seller read and a third identity with a profile does not.
C5_Witness ==
    \E o \in DOMAIN orders : \E third \in DOMAIN profiles :
        /\ ~restaurants[orders[o].restaurant_id].is_active
        /\ orders[o].customer_id # SellerOf(orders[o].restaurant_id)
        /\ o \in SelectOrders(orders[o].customer_id)
        /\ o \in SelectOrders(SellerOf(orders[o].restaurant_id))
        /\ third \notin {orders[o].customer_id, SellerOf(orders[o].restaurant_id)}
        /\ o \notin SelectOrders(third)

\* C6 - Order insert authorization: an order row enters the table only by an
\* orders insert whose sender is the row's customer_id and has, in the state
\* the insert runs in, a profile with user_type customer.
C6_OrderInsertAuthorization ==
    [][ /\ \A o \in DOMAIN orders' \ DOMAIN orders :
              /\ Did("orders", "insert") /\ last'.id = o
              /\ orders'[o].customer_id = last'.uid
              /\ Row(profiles, last'.uid).id = last'.uid
              /\ profiles[last'.uid].user_type = "customer"
        /\ Did("orders", "insert") => last'.id \in DOMAIN orders' \ DOMAIN orders
      ]_vars

\* C6 witness: a customer has just inserted an order while a seller, whose
\* insert of the same row and of a row of its own the policy refuses, exists.
C6_Witness ==
    /\ last.table = "orders" /\ last.op = "insert"
    /\ last.id \in DOMAIN orders
    /\ \E s \in DOMAIN profiles :
          /\ profiles[s].user_type = "seller"
          /\ ~CustomersCanInsertOwnOrders(s, orders[last.id])
          /\ ~CustomersCanInsertOwnOrders(s, [orders[last.id] EXCEPT !.customer_id = s])

\* C7 - Restaurant insert authorization: a restaurant row enters the table
\* only by a restaurants insert whose sender is the row's seller_id and has,
\* in the state the insert runs in, a profile with user_type seller.
C7_RestaurantInsertAuthorization ==
    [][ /\ \A r \in DOMAIN restaurants' \ DOMAIN restaurants :
              /\ Did("restaurants", "insert") /\ last'.id = r
              /\ restaurants'[r].seller_id = last'.uid
              /\ Row(profiles, last'.uid).id = last'.uid
              /\ profiles[last'.uid].user_type = "seller"
        /\ Did("restaurants", "insert") =>
              last'.id \in DOMAIN restaurants' \ DOMAIN restaurants
      ]_vars

\* C7 witness: a seller has just inserted a restaurant while a customer, whose
\* insert of the same row and of a row of its own the policy refuses, exists.
C7_Witness ==
    /\ last.table = "restaurants" /\ last.op = "insert"
    /\ last.id \in DOMAIN restaurants
    /\ \E c \in DOMAIN profiles :
          /\ profiles[c].user_type = "customer"
          /\ ~SellersCanInsertOwnRestaurants(c, restaurants[last.id])
          /\ ~SellersCanInsertOwnRestaurants(c, [restaurants[last.id] EXCEPT !.seller_id = c])

\* C8 - Catalog writes are owner-only: a restaurant row changes or goes only
\* in a step sent by its seller_id; a dish row appears, changes or goes only
\* in a step sent by the seller_id of its parent restaurant, the parent before
\* and the parent after the step alike.
C8_CatalogWritesOwnerOnly ==
    [][ /\ \A r \in DOMAIN restaurants :
              Row(restaurants', r) # restaurants[r] =>
                  /\ last'.uid = restaurants[r].seller_id
                  /\ Did("restaurants", "update") \/ Did("restaurants", "delete")
        /\ \A d \in DOMAIN dishes :
              Row(dishes', d) # dishes[d] =>
                  last'.uid = SellerOf(dishes[d].restaurant_id)
        /\ \A d \in DOMAIN dishes' :
              Row(dishes, d) # dishes'[d] =>
                  /\ last'.uid = SellerOf(dishes'[d].restaurant_id)
                  /\ Did("dishes", "insert") \/ Did("dishes", "update")
        /\ Did("restaurants", "update") \/ Did("restaurants", "delete") =>
              last'.uid = SellerOf(last'.id)
        /\ Did("dishes", "update") \/ Did("dishes", "delete") =>
              last'.uid = SellerOf(dishes[last'.id].restaurant_id)
      ]_vars

\* C8 witness: a seller has just updated a dish of its own restaurant while a
\* second restaurant with another seller exists, into which the policy lets
\* the first seller neither move the dish nor insert one.
C8_Witness ==
    /\ last.table = "dishes" /\ last.op = "update"
    /\ last.id \in DOMAIN dishes
    /\ last.uid = SellerOf(dishes[last.id].restaurant_id)
    /\ \E r \in DOMAIN restaurants :
          /\ restaurants[r].seller_id # last.uid
          /\ ~SellersCanUpdateOwnDishesCheck(last.uid,
                 [dishes[last.id] EXCEPT !.restaurant_id = r])
          /\ ~SellersCanUpdateOwnDishesUsing(restaurants[r].seller_id, dishes[last.id])

\* C9 - Order-item visibility: a select as X returns order_item i exactly
\* when X is the customer_id of i's parent order or the seller_id of that
\* order's restaurant.
C9_OrderItemVisibility ==
    \A uid \in Users : \A i \in DOMAIN order_items :
        i \in SelectOrderItems(uid) <=>
            \/ uid = Row(orders, order_items[i].order_id).customer_id
            \/ uid = SellerOf(Row(orders, order_items[i].order_id).restaurant_id)

\* C9 witness: a line item of an order of an inactive restaurant that the
\* order's customer and the restaurant's seller read and a third identity with
\* a profile does not.
C9_Witness ==
    \E i \in DOMAIN order_items : \E third \in DOMAIN profiles :
        LET o == orders[order_items[i].order_id] IN
        /\ ~restaurants[o.restaurant_id].is_active
        /\ o.customer_id # SellerOf(o.restaurant_id)
        /\ i \in SelectOrderItems(o.customer_id)
        /\ i \in SelectOrderItems(SellerOf(o.restaurant_id))
        /\ third \notin {o.customer_id, SellerOf(o.restaurant_id)}
        /\ i \notin SelectOrderItems(third)

\* C10 - Order-item insert authorization: an order_items row enters the table
\* only by an order_items insert sent by the customer_id of the row's parent
\* order.
C10_OrderItemInsertAuthorization ==
    [][ /\ \A i \in DOMAIN order_items' \ DOMAIN order_items :
              /\ Did("order_items", "insert") /\ last'.id = i
              /\ last'.uid = Row(orders, order_items'[i].order_id).customer_id
        /\ Did("order_items", "insert") =>
              last'.id \in DOMAIN order_items' \ DOMAIN order_items
      ]_vars

\* C10 witness: the customer has just inserted a line item of an order whose
\* restaurant belongs to another identity; the policy refuses the same row
\* from that seller and from a third identity with a profile.
C10_Witness ==
    /\ last.table = "order_items" /\ last.op = "insert"
    /\ last.id \in DOMAIN order_items
    /\ LET o == orders[order_items[last.id].order_id] IN
          /\ last.uid = o.customer_id
          /\ SellerOf(o.restaurant_id) # o.customer_id
          /\ ~CustomersCanInsertOwnOrderItems(SellerOf(o.restaurant_id), order_items[last.id])
          /\ \E third \in DOMAIN profiles :
                /\ third \notin {o.customer_id, SellerOf(o.restaurant_id)}
                /\ ~CustomersCanInsertOwnOrderItems(third, order_items[last.id])

\* C11 - Order items are immutable: no step changes the quantity or the price
\* of an order_items row or removes the row, whoever sends it and whichever
\* table it writes.
C11_OrderItemsImmutable ==
    [][ \A i \in DOMAIN order_items :
            /\ i \in DOMAIN order_items'
            /\ order_items'[i].quantity = order_items[i].quantity
            /\ order_items'[i].price = order_items[i].price
      ]_vars

\* C14 - Order status domain: every stored order has one of the six statuses,
\* and no identity's insert or update of a row with another status is a step.
C14_OrderStatusDomain ==
    /\ \A o \in DOMAIN orders : orders[o].status \in OrderStatus
    /\ \A uid \in Users : \A row \in OrderRows :
          row.status \notin OrderStatus =>
              /\ ~ENABLED OrdersInsert(uid, row)
              /\ ~ENABLED OrdersUpdate(uid, row.id, row)

\* C14 witness: a pending order whose customer may set it to confirmed, while
\* the same update with a status outside the six is refused.
C14_Witness ==
    \E o \in DOMAIN orders :
        /\ last.table = "orders"
        /\ orders[o].status = "pending"
        /\ ENABLED OrdersUpdate(orders[o].customer_id, o,
                                [orders[o] EXCEPT !.status = "confirmed"])
        /\ ~ENABLED OrdersUpdate(orders[o].customer_id, o,
                                 [orders[o] EXCEPT !.status = "refunded"])

\* C16 - Role fixed at creation: no step changes the id or the user_type of
\* a stored profile.
C16_RoleFixedAtCreation ==
    [][ \A id \in DOMAIN profiles :
            /\ id \in DOMAIN profiles'
            /\ profiles'[id].id = profiles[id].id
            /\ profiles'[id].user_type = profiles[id].user_type
      ]_vars

\* C17 - Owner-role consistency: every restaurant's seller_id is the id of a
\* profile with user_type seller, and every order's customer_id the id of a
\* profile with user_type customer.
C17_OwnerRoleConsistency ==
    /\ \A r \in DOMAIN restaurants :
          Row(profiles, restaurants[r].seller_id).user_type = "seller"
    /\ \A o \in DOMAIN orders :
          Row(profiles, orders[o].customer_id).user_type = "customer"

\* C18 - Orders start pending: every order row that enters the table has
\* status pending in the step that creates it.
C18_OrdersStartPending ==
    [][ \A o \in DOMAIN orders' \ DOMAIN orders : orders'[o].status = "pending" ]_vars

\* C15 - Numeric integrity: every stored dish has price >= 0, every stored
\* order_item quantity > 0 and price >= 0, every stored order total_amount >=
\* 0, and no identity's insert or update of a row on the far side of one of
\* these constraints is a step.
C15_NumericIntegrity ==
    /\ \A d \in DOMAIN dishes : dishes[d].price >= 0
    /\ \A i \in DOMAIN order_items :
          order_items[i].quantity > 0 /\ order_items[i].price >= 0
    /\ \A o \in DOMAIN orders : orders[o].total_amount >= 0
    /\ \A uid \in Users :
          /\ \A row \in AvailableDishRows : row.price < 0 =>
                /\ ~ENABLED DishesInsert(uid, row)
                /\ ~ENABLED DishesUpdate(uid, row.id, row)
          /\ \A row \in AmountOrderRows : row.total_amount < 0 =>
                /\ ~ENABLED OrdersInsert(uid, row)
                /\ ~ENABLED OrdersUpdate(uid, row.id, row)
          /\ \A row \in OrderItemRows : row.quantity <= 0 \/ row.price < 0 =>
                ~ENABLED OrderItemsInsert(uid, row)

\* C15 witness: an order_item is stored, and the seller of its dish may set
\* the dish's price to 0 while the same update with price -1 is refused.
C15_Witness ==
    \E i \in DOMAIN order_items :
        LET d == order_items[i].dish_id
            seller == SellerOf(dishes[d].restaurant_id) IN
        /\ dishes[d].price > 0
        /\ ENABLED DishesUpdate(seller, d, [dishes[d] EXCEPT !.price = 0])
        /\ ~ENABLED DishesUpdate(seller, d, [dishes[d] EXCEPT !.price = -1])

\* C20 - Unconstrained status transitions: whatever status an order has, its
\* customer_id and the seller_id of its restaurant may each set it to every
\* one of the six statuses.
C20_UnconstrainedStatusTransitions ==
    \A o \in DOMAIN orders : \A status \in OrderStatus :
        \A uid \in {orders[o].customer_id, SellerOf(orders[o].restaurant_id)} :
            ENABLED OrdersUpdate(uid, o, [orders[o] EXCEPT !.status = status])

\* C20 witness: the seller of an inactive restaurant, who is not the order's
\* customer, has just set the order back to pending, and may now set it to
\* delivered.
C20_Witness ==
    /\ last.table = "orders" /\ last.op = "update"
    /\ last.id \in DOMAIN orders
    /\ orders[last.id].status = "pending"
    /\ last.uid = SellerOf(orders[last.id].restaurant_id)
    /\ last.uid # orders[last.id].customer_id
    /\ ~restaurants[orders[last.id].restaurant_id].is_active
    /\ ENABLED OrdersUpdate(last.uid, last.id,
                            [orders[last.id] EXCEPT !.status = "delivered"])

\* The sum over the entries of a cart of dish price times quantity.
CartSum(items) ==
    LET RECURSIVE over(_)
        over(entries) ==
            IF entries = {} THEN 0
            ELSE LET k == CHOOSE entry \in entries : TRUE
                 IN  items[k].dish.price * items[k].quantity + over(entries \ {k})
    IN  over(DOMAIN items)

\* The step in which handlePlaceOrder's orders insert commits.
OrderPlaced == placing.pc = "order" /\ placing'.pc = "items"

\* The step in which handlePlaceOrder's order_items insert commits.
OrderItemsPlaced == placing.pc = "items" /\ timer' /\ ~timer

\* The step in which handlePlaceOrder's order_items insert fails.
OrderItemsFailed == placing.pc = "items" /\ placing'.pc = "idle" /\ ~timer'

C13_PriceSnapshotAtPlacement ==
    [][ /\ OrderPlaced =>
              \A k \in DOMAIN placing.items :
                  placing.items[k].dish.id \in DOMAIN dishes =>
                      placing.items[k].dish.price =
                          dishes[placing.items[k].dish.id].price
        /\ OrderItemsPlaced =>
              \A i \in DOMAIN order_items' \ DOMAIN order_items :
                  order_items'[i].price = dishes[order_items'[i].dish_id].price
      ]_vars

PlacementStarted == placing'.pc = "order" /\ placing' # placing

\* The order_items that the step stores and that were not stored before.
OrderItemsCreated == DOMAIN order_items' \ DOMAIN order_items

Changed(before, after) ==
    {id \in DOMAIN before \cup DOMAIN after : Row(before, id) # Row(after, id)}

\* The rows a select returns for the ids it admits.
Rows(table, ids) == {table[id] : id \in ids}

\* Every row the step changes is one that uid may read neither as it was nor
\* as it has become.
HiddenFrom(uid) ==
    /\ \A id \in Changed(profiles, profiles') :
          id \notin SelectProfiles(uid) /\ id \notin SelectProfiles(uid)'
    /\ \A id \in Changed(restaurants, restaurants') :
          id \notin SelectRestaurants(uid) /\ id \notin SelectRestaurants(uid)'
    /\ \A id \in Changed(dishes, dishes') :
          id \notin SelectDishes(uid) /\ id \notin SelectDishes(uid)'
    /\ \A id \in Changed(orders, orders') :
          id \notin SelectOrders(uid) /\ id \notin SelectOrders(uid)'
    /\ \A id \in Changed(order_items, order_items') :
          id \notin SelectOrderItems(uid) /\ id \notin SelectOrderItems(uid)'

\* What uid reads is the same before and after the step, on every table.
SameReads(uid) ==
    /\ Rows(profiles, SelectProfiles(uid)) = Rows(profiles', SelectProfiles(uid)')
    /\ Rows(restaurants, SelectRestaurants(uid)) =
          Rows(restaurants', SelectRestaurants(uid)')
    /\ Rows(dishes, SelectDishes(uid)) = Rows(dishes', SelectDishes(uid)')
    /\ Rows(orders, SelectOrders(uid)) = Rows(orders', SelectOrders(uid)')
    /\ Rows(order_items, SelectOrderItems(uid)) =
          Rows(order_items', SelectOrderItems(uid)')

\* C22 - Information hiding on reads: a select returns only rows that a SELECT
\* policy admits for the caller, so a row the caller may not read gives zero
\* rows, as an absent row does; and when two successive database states differ
\* only in rows that the caller may read in neither, the caller's selects
\* return the same rows in both, on every table.
C22_InformationHidingOnReads ==
    /\ [](\A uid \in Users :
            /\ \A id \in SelectProfiles(uid) :
                  UsersCanViewOwnProfile(uid, profiles[id])
            /\ \A id \in SelectOrders(uid) :
                  \/ CustomersCanViewOwnOrders(uid, orders[id])
                  \/ SellersCanViewOrdersForTheirRestaurants(uid, orders[id])
            /\ \A id \in SelectOrderItems(uid) :
                  \/ CustomersCanViewOwnOrderItems(uid, order_items[id])
                  \/ SellersCanViewOrderItemsForTheirRestaurants(uid, order_items[id]))
    /\ [][\A uid \in Users : HiddenFrom(uid) => SameReads(uid)]_vars

\* C22 witness: an order has just been written that a third identity with a
\* profile may not read, in a restaurant that this identity may not read
\* either, while the identity reads its own profile.
C22_Witness ==
    /\ last.table = "orders" /\ last.id \in DOMAIN orders
    /\ \E uid \in DOMAIN profiles :
          /\ uid # last.uid
          /\ last.id \notin SelectOrders(uid)
          /\ orders[last.id].restaurant_id \notin SelectRestaurants(uid)
          /\ SelectProfiles(uid) = {uid}
          /\ SelectOrders(uid) = {}

\* The step in which handlePlaceOrder's orders insert fails.
OrderFailed == placing.pc = "order" /\ placing'.pc = "idle"

\* The step in which handlePlaceOrder returns at its address check.
AddressMissing ==
    /\ cart # null /\ cart' # null
    /\ cart'.error = "Please enter a delivery address" /\ cart.error # cart'.error

C24_OrderItemsBelongToOrdersRestaurant ==
    \A i \in DOMAIN order_items :
        dishes[order_items[i].dish_id].restaurant_id =
            orders[order_items[i].order_id].restaurant_id

\* C25 - Order parties are fixed: no step changes the customer_id or the
\* restaurant_id of a stored order.
C25_OrderPartiesFixed ==
    [][\A o \in DOMAIN orders \cap DOMAIN orders' :
          /\ orders'[o].customer_id = orders[o].customer_id
          /\ orders'[o].restaurant_id = orders[o].restaurant_id]_vars

\* A sequence without its k-th element.
Remove(items, k) ==
    [j \in 1..(Len(items) - 1) |-> IF j < k THEN items[j] ELSE items[j + 1]]

\* The cart after the step is the cart before it with the quantity of its
\* k-th entry changed by delta and nothing else changed.
QuantityChanged(k, delta) ==
    cartItems' = [cartItems EXCEPT ![k].quantity = @ + delta]

\* C26 - Cart well-formedness: no two entries of the cart hold the same dish
\* id and every quantity is at least 1.  A step that changes the cart from
\* RestaurantView (addToCart) either raises the quantity of one entry by
\* exactly 1 or, only if no entry holds that dish, appends an entry of
\* quantity 1, and leaves the other entries as they are.  A step that changes
\* the cart from the open Cart (updateCartItem) changes the quantity of one
\* entry by 1, or removes exactly one entry and leaves the others in order;
\* only the timeout callback after a success (clearCart) empties it at once.
C26_CartWellFormedness ==
    /\ [](\A j, k \in DOMAIN cartItems :
            /\ cartItems[k].quantity >= 1
            /\ cartItems[j].dish.id = cartItems[k].dish.id => j = k)
    /\ [][ /\ (Screen = "RestaurantView" /\ cartItems' # cartItems) =>
                 \/ \E k \in DOMAIN cartItems : QuantityChanged(k, 1)
                 \/ /\ Len(cartItems') = Len(cartItems) + 1
                    /\ SubSeq(cartItems', 1, Len(cartItems)) = cartItems
                    /\ cartItems'[Len(cartItems')].quantity = 1
                    /\ cartItems'[Len(cartItems')].restaurant = selectedRestaurant
                    /\ cartItems'[Len(cartItems')].dish \in restaurantView.dishes
                    /\ \A k \in DOMAIN cartItems :
                          cartItems[k].dish.id # cartItems'[Len(cartItems')].dish.id
           /\ (Screen = "Cart" /\ ~timer /\ cartItems' # cartItems) =>
                 \E k \in DOMAIN cartItems :
                     \/ QuantityChanged(k, 1)
                     \/ QuantityChanged(k, -1)
                     \/ cartItems' = Remove(cartItems, k)
           /\ (timer /\ cartItems' # cartItems) => cartItems' = <<>>
           /\ Screen = "CustomerDashboard" => cartItems' = cartItems
         ]_vars

\* C26 witness: in RestaurantView of restaurant 2, the cart holds a dish of
\* restaurant 1 in one entry of quantity 2 and, after it, a dish of restaurant
\* 2 in one entry of quantity 1, which "Add to Cart" is about to raise.
C26_Witness ==
    /\ Screen = "RestaurantView" /\ selectedRestaurant.id = 2
    /\ Len(cartItems) = 2
    /\ cartItems[1].quantity = 2 /\ cartItems[1].restaurant.id = 1
    /\ cartItems[2].quantity = 1 /\ cartItems[2].restaurant.id = 2
    /\ ENABLED addToCart(cartItems[2].dish, selectedRestaurant)

=============================================================================
